---- MODULE Spec2Model ----
(***************************************************************************)
(* A model of profile-borsh (src/src/main.rs): the borsh binary codec of   *)
(* a wasm AOT cache image -- MachineValue's hand-written serializer and    *)
(* deserializer, the derived (field by field) codecs of the state-map      *)
(* structures, ExceptionTable's raw-hash-table serializer, and             *)
(* CacheImage's hand-written deserializer.                                 *)
(*                                                                         *)
(* Bytes are naturals 0..255 and a buffer is a sequence of bytes.  A       *)
(* reader is a buffer and the 1-based position of its next byte (Rust's    *)
(* `&mut &[u8]`).  A usize/u64 is four 16-bit limbs, least significant     *)
(* first, so that all 64 bits of a decoded word are kept.                  *)
(***************************************************************************)
EXTENDS Integers, Sequences, FiniteSets, TLC

VARIABLES
    mv_phase, mv_written, mv_wbuf, mv_tail, mv_rsrc, mv_rbuf, mv_read, mv_err,
    et_phase, et_table, et_inserts, et_out, et_dec,
    ci_phase, ci_image, ci_src, ci_buf, ci_pc, ci_fields, ci_log, ci_err, ci_result,
    sm_phase, sm_fsm, sm_query, sm_info, sm_chain, sm_state, sm_err

mv_vars == <<mv_phase, mv_written, mv_wbuf, mv_tail, mv_rsrc, mv_rbuf, mv_read, mv_err>>
et_vars == <<et_phase, et_table, et_inserts, et_out, et_dec>>
ci_vars == <<ci_phase, ci_image, ci_src, ci_buf, ci_pc, ci_fields, ci_log, ci_err, ci_result>>
sm_vars == <<sm_phase, sm_fsm, sm_query, sm_info, sm_chain, sm_state, sm_err>>
vars == <<mv_vars, et_vars, ci_vars, sm_vars>>

(***************************************************************************)
(* Bounds of the model.                                                    *)
(***************************************************************************)
\* MachineValues written back to back into one buffer.
MaxValues == 2
\* Length of a raw (not encoder-made) buffer handed to MachineValue::deserialize.
MaxRawLen == 3
\* Calls of HashMap::insert that build one exception table.
MaxInserts == 2

(***************************************************************************)
(* Words and bytes.                                                        *)
(***************************************************************************)
\* The usize/u64 n (n < 2^31) as limbs.
U(n) == <<n % 65536, n \div 65536, 0, 0>>

\* u64::MAX.
U64Max == <<65535, 65535, 65535, 65535>>

\* a < b on u64 limbs.
U64Less(a, b) ==
    \E i \in 1..4 : a[i] < b[i] /\ \A j \in (i + 1)..4 : a[j] = b[j]

\* The value of a u64 when it fits 31 bits, else the cap 2^31 - 1.
U64ToNat(a) ==
    IF a[3] = 0 /\ a[4] = 0 /\ a[2] < 32768 THEN a[1] + 65536 * a[2] ELSE 2147483647

\* What a decoder returns: Ok(value) with the reader advanced, or Err.
Ok(v, pos) == [ok |-> TRUE, val |-> v, pos |-> pos, err |-> ""]
Err(e, pos) == [ok |-> FALSE, val |-> <<>>, pos |-> pos, err |-> e]

\* u8: one byte.
u8_serialize(b) == <<b>>
u8_deserialize(buf, pos) ==
    IF pos > Len(buf) THEN Err("UnexpectedLength", pos) ELSE Ok(buf[pos], pos + 1)

\* u32 (borsh's length prefix): 4 bytes little endian.  Lengths in the model
\* are naturals; a decoded length of 2^31 or more is reported as 2^31 - 1,
\* more elements than any buffer of the model holds.
u32_serialize(n) ==
    <<n % 256, (n \div 256) % 256, (n \div 65536) % 256, (n \div 16777216) % 256>>
u32_deserialize(buf, pos) ==
    IF pos + 3 > Len(buf) THEN Err("UnexpectedLength", pos)
    ELSE Ok(IF buf[pos + 3] >= 128 THEN 2147483647
            ELSE buf[pos] + 256 * buf[pos + 1] + 65536 * buf[pos + 2]
                 + 16777216 * buf[pos + 3],
            pos + 4)

\* u64, and usize (borsh writes a usize as a u64): 8 bytes little endian.
u64_serialize(a) ==
    <<a[1] % 256, a[1] \div 256, a[2] % 256, a[2] \div 256,
      a[3] % 256, a[3] \div 256, a[4] % 256, a[4] \div 256>>
u64_deserialize(buf, pos) ==
    IF pos + 7 > Len(buf) THEN Err("UnexpectedLength", pos)
    ELSE Ok(<<buf[pos] + 256 * buf[pos + 1], buf[pos + 2] + 256 * buf[pos + 3],
              buf[pos + 4] + 256 * buf[pos + 5], buf[pos + 6] + 256 * buf[pos + 7]>>,
            pos + 8)

\* i32: 4 bytes little endian, two's complement.
i32_serialize(i) ==
    <<i % 256, (i \div 256) % 256, (i \div 65536) % 256, (i \div 16777216) % 256>>
i32_deserialize(buf, pos) ==
    IF pos + 3 > Len(buf) THEN Err("UnexpectedLength", pos)
    ELSE Ok(buf[pos] + 256 * buf[pos + 1] + 65536 * buf[pos + 2]
            + 16777216 * (IF buf[pos + 3] >= 128 THEN buf[pos + 3] - 256
                          ELSE buf[pos + 3]),
            pos + 4)

(***************************************************************************)
(* MachineValue (main.rs 75-95): a record with its variant in `tag`.       *)
(***************************************************************************)
Undefined == [tag |-> "Undefined"]
Vmctx == [tag |-> "Vmctx"]
VmctxDeref(v) == [tag |-> "VmctxDeref", v |-> v]
PreserveRegister(r) == [tag |-> "PreserveRegister", r |-> r]
CopyStackBPRelative(i) == [tag |-> "CopyStackBPRelative", i |-> i]
ExplicitShadow == [tag |-> "ExplicitShadow"]
WasmStack(u) == [tag |-> "WasmStack", u |-> u]
WasmLocal(u) == [tag |-> "WasmLocal", u |-> u]
TwoHalves(a, b) == [tag |-> "TwoHalves", a |-> a, b |-> b]

RECURSIVE MachineValue_serialize(_)
RECURSIVE MachineValue_deserialize(_, _)
RECURSIVE Ser(_, _)
RECURSIVE Deser(_, _, _)

\* The types the codec is used at.  A type is a tuple: its kind, then its
\* parameters (element types, variant names, field names).
TyU8 == <<"u8">>
TyUsize == <<"usize">>
TyU64 == <<"u64">>
TyI32 == <<"i32">>
TyVec(T) == <<"Vec", T>>
TyMap(K, V) == <<"Map", K, V>>
TyOption(T) == <<"Option", T>>
TyTuple2(A, B) == <<"Tuple2", A, B>>
TyUnit == <<"Unit">>
TyEnum(names, payloads) == <<"Enum", names, payloads>>
TyStruct(names, types) == <<"Struct", names, types>>
TyMachineValue == <<"MachineValue">>

\* The arms of MachineValue::serialize: the discriminant byte, then the payload.
SerVmctxDeref(v) == <<2>> \o Ser(TyVec(TyUsize), v)
SerPreserveRegister(r) == <<3>> \o u64_serialize(r)
SerCopyStackBPRelative(i) == <<4>> \o i32_serialize(i)
SerWasmStack(u) == <<6>> \o u64_serialize(u)
SerWasmLocalAsWasmStack(u) == <<6>> \o u64_serialize(u)
SerWasmLocal(u) == <<7>> \o u64_serialize(u)
SerTwoHalves(a, b) == <<8>> \o MachineValue_serialize(a) \o MachineValue_serialize(b)

MachineValue_serialize(x) ==
    CASE x.tag = "Undefined" -> <<0>>
      [] x.tag = "Vmctx" -> <<1>>
      [] x.tag = "VmctxDeref" -> SerVmctxDeref(x.v)
      [] x.tag = "PreserveRegister" -> SerPreserveRegister(x.r)
      [] x.tag = "CopyStackBPRelative" -> SerCopyStackBPRelative(x.i)
      [] x.tag = "ExplicitShadow" -> <<5>>
      [] x.tag = "WasmStack" -> SerWasmStack(x.u)
      [] x.tag = "WasmLocal" -> SerWasmLocal(x.u)
      [] x.tag = "TwoHalves" -> SerTwoHalves(x.a, x.b)

\* The arms of MachineValue::deserialize, after the discriminant byte.
DeVmctxDeref(buf, pos) ==
    LET r == Deser(TyVec(TyUsize), buf, pos)
    IN  IF r.ok THEN Ok(VmctxDeref(r.val), r.pos) ELSE r
DePreserveRegister(buf, pos) ==
    LET r == u64_deserialize(buf, pos)
    IN  IF r.ok THEN Ok(PreserveRegister(r.val), r.pos) ELSE r
DeCopyStackBPRelative(buf, pos) ==
    LET r == i32_deserialize(buf, pos)
    IN  IF r.ok THEN Ok(CopyStackBPRelative(r.val), r.pos) ELSE r
DeWasmStackShort(buf, pos) ==
    LET r == u32_deserialize(buf, pos)
    IN  IF r.ok THEN Ok(WasmStack(U(r.val)), r.pos) ELSE r
DeWasmStack(buf, pos) ==
    LET r == u64_deserialize(buf, pos)
    IN  IF r.ok THEN Ok(WasmStack(r.val), r.pos) ELSE r
DeWasmLocal(buf, pos) ==
    LET r == u64_deserialize(buf, pos)
    IN  IF r.ok THEN Ok(WasmLocal(r.val), r.pos) ELSE r
DeTwoHalves(buf, pos) ==
    LET a == MachineValue_deserialize(buf, pos)
    IN  IF ~a.ok THEN a
        ELSE LET b == MachineValue_deserialize(buf, a.pos)
             IN  IF b.ok THEN Ok(TwoHalves(a.val, b.val), b.pos) ELSE b
DeUnknownVariantAsUndefined(variant, pos) == Ok(Undefined, pos)
DeUnknownVariant(variant, pos) == Err("UnexpectedVariant", pos)

MachineValue_deserialize(buf, pos) ==
    LET variant == u8_deserialize(buf, pos)
    IN  IF ~variant.ok THEN variant
        ELSE CASE variant.val = 0 -> Ok(Undefined, variant.pos)
               [] variant.val = 1 -> Ok(Vmctx, variant.pos)
               [] variant.val = 2 -> DeVmctxDeref(buf, variant.pos)
               [] variant.val = 3 -> DePreserveRegister(buf, variant.pos)
               [] variant.val = 4 -> DeCopyStackBPRelative(buf, variant.pos)
               [] variant.val = 5 -> Ok(ExplicitShadow, variant.pos)
               [] variant.val = 6 -> DeWasmStack(buf, variant.pos)
               [] variant.val = 7 -> DeWasmLocal(buf, variant.pos)
               [] variant.val = 8 -> DeTwoHalves(buf, variant.pos)
               [] OTHER -> DeUnknownVariant(variant.val, variant.pos)

(***************************************************************************)
(* The derived codecs (#[derive(BorshSerialize, BorshDeserialize)]) and    *)
(* borsh's codecs of the standard types, by type.                          *)
(*   Vec<T>       a sequence                                               *)
(*   BTreeMap/HashMap<K, V>   a function on its finite set of keys         *)
(*   Option<T>    [some |-> FALSE] or [some |-> TRUE, val |-> x]           *)
(*   (A, B)       a pair                                                   *)
(*   an enum      [tag |-> variant] or [tag |-> variant, p |-> payload]    *)
(*   a struct     a record of its fields                                   *)
(***************************************************************************)
None == [some |-> FALSE]
Some(x) == [some |-> TRUE, val |-> x]

RECURSIVE SerSeq(_, _)
RECURSIVE SerMapEntries(_, _, _, _)
RECURSIVE SerFields(_, _, _, _)
RECURSIVE DeserSeq(_, _, _, _, _)
RECURSIVE DeserMapEntries(_, _, _, _, _, _)
RECURSIVE DeserFields(_, _, _, _, _, _)

\* The position of name s in the sequence names (0: not there).
IndexOf(names, s) ==
    IF \E i \in 1..Len(names) : names[i] = s
    THEN CHOOSE i \in 1..Len(names) : names[i] = s
    ELSE 0

\* The least key of a non-empty set of u64 keys.
MinKey(keys) == CHOOSE k \in keys : \A j \in keys : j = k \/ U64Less(k, j)

\* m with key k set to v (BTreeMap::insert, HashMap::insert on the decoded map).
MapInsert(m, k, v) == [j \in (DOMAIN m) \cup {k} |-> IF j = k THEN v ELSE m[j]]

\* The elements of a sequence, in order.
SerSeq(T, xs) == IF xs = <<>> THEN <<>> ELSE Ser(T, Head(xs)) \o SerSeq(T, Tail(xs))

\* The entries of a map, in ascending key order (BTreeMap's iteration order).
SerMapEntries(K, V, m, keys) ==
    IF keys = {} THEN <<>>
    ELSE LET k == MinKey(keys)
         IN  Ser(K, k) \o Ser(V, m[k]) \o SerMapEntries(K, V, m, keys \ {k})

\* The fields of a struct, in declaration order.
SerFields(names, types, x, i) ==
    IF i > Len(names) THEN <<>>
    ELSE Ser(types[i], x[names[i]]) \o SerFields(names, types, x, i + 1)

\* A variant: its index as one byte, then its payload.
SerEnum(names, payloads, x) ==
    LET i == IndexOf(names, x.tag)
    IN  <<i - 1>> \o (IF payloads[i][1] = "Unit" THEN <<>> ELSE Ser(payloads[i], x.p))

Ser(T, x) ==
    CASE T[1] = "u8" -> u8_serialize(x)
      [] T[1] = "usize" -> u64_serialize(x)
      [] T[1] = "u64" -> u64_serialize(x)
      [] T[1] = "i32" -> i32_serialize(x)
      [] T[1] = "Vec" -> u32_serialize(Len(x)) \o SerSeq(T[2], x)
      [] T[1] = "Map" ->
           u32_serialize(Cardinality(DOMAIN x)) \o SerMapEntries(T[2], T[3], x, DOMAIN x)
      [] T[1] = "Option" -> IF x.some THEN <<1>> \o Ser(T[2], x.val) ELSE <<0>>
      [] T[1] = "Tuple2" -> Ser(T[2], x[1]) \o Ser(T[3], x[2])
      [] T[1] = "Enum" -> SerEnum(T[2], T[3], x)
      [] T[1] = "Struct" -> SerFields(T[2], T[3], x, 1)
      [] T[1] = "MachineValue" -> MachineValue_serialize(x)

\* n elements, one after another; the first error ends the loop.  (The
\* loop is evaluated in two halves, so that a huge count read from a
\* damaged buffer nests to its logarithm only; the result is the loop's.)
DeserSeq(T, n, buf, pos, acc) ==
    IF n = 0 THEN Ok(acc, pos)
    ELSE IF n = 1
         THEN LET r == Deser(T, buf, pos)
              IN  IF r.ok THEN Ok(Append(acc, r.val), r.pos) ELSE r
         ELSE LET h == DeserSeq(T, n \div 2, buf, pos, acc)
              IN  IF h.ok THEN DeserSeq(T, n - (n \div 2), buf, h.pos, h.val) ELSE h

\* n (key, value) pairs, each inserted into the map: a repeated key keeps the
\* later value, and no order of the keys is required.
DeserMapEntries(K, V, n, buf, pos, acc) ==
    IF n = 0 THEN Ok(acc, pos)
    ELSE IF n = 1
         THEN LET k == Deser(K, buf, pos)
              IN  IF ~k.ok THEN k
                  ELSE LET v == Deser(V, buf, k.pos)
                       IN  IF ~v.ok THEN v
                           ELSE Ok(MapInsert(acc, k.val, v.val), v.pos)
         ELSE LET h == DeserMapEntries(K, V, n \div 2, buf, pos, acc)
              IN  IF h.ok THEN DeserMapEntries(K, V, n - (n \div 2), buf, h.pos, h.val)
                  ELSE h

\* The fields of a struct, in declaration order; the first error is returned.
DeserFields(names, types, i, buf, pos, acc) ==
    IF i > Len(names) THEN Ok(acc, pos)
    ELSE LET r == Deser(types[i], buf, pos)
         IN  IF ~r.ok THEN r
             ELSE DeserFields(names, types, i + 1, buf, r.pos,
                              [f \in (DOMAIN acc) \cup {names[i]} |->
                                  IF f = names[i] THEN r.val ELSE acc[f]])

DeserOption(T, buf, pos) ==
    LET flag == u8_deserialize(buf, pos)
    IN  IF ~flag.ok THEN flag
        ELSE IF flag.val = 0 THEN Ok(None, flag.pos)
        ELSE IF flag.val = 1
             THEN LET r == Deser(T, buf, flag.pos)
                  IN  IF r.ok THEN Ok(Some(r.val), r.pos) ELSE r
             ELSE Err("InvalidOption", flag.pos)

DeserTuple2(A, B, buf, pos) ==
    LET a == Deser(A, buf, pos)
    IN  IF ~a.ok THEN a
        ELSE LET b == Deser(B, buf, a.pos)
             IN  IF b.ok THEN Ok(<<a.val, b.val>>, b.pos) ELSE b

DeserEnum(names, payloads, buf, pos) ==
    LET idx == u8_deserialize(buf, pos)
    IN  IF ~idx.ok THEN idx
        ELSE IF idx.val >= Len(names) THEN Err("UnexpectedVariant", idx.pos)
        ELSE IF payloads[idx.val + 1][1] = "Unit"
             THEN Ok([tag |-> names[idx.val + 1]], idx.pos)
             ELSE LET r == Deser(payloads[idx.val + 1], buf, idx.pos)
                  IN  IF r.ok THEN Ok([tag |-> names[idx.val + 1], p |-> r.val], r.pos)
                      ELSE r

\* Every element takes at least one byte, so a loop of more iterations
\* than bytes are left fails as a loop of one more than are left does.
LoopCount(n, buf, pos) == IF n > Len(buf) - pos + 2 THEN Len(buf) - pos + 2 ELSE n

DeserVec(T, buf, pos) ==
    LET n == u32_deserialize(buf, pos)
    IN  IF n.ok THEN DeserSeq(T, LoopCount(n.val, buf, n.pos), buf, n.pos, <<>>) ELSE n

DeserMap(K, V, buf, pos) ==
    LET n == u32_deserialize(buf, pos)
    IN  IF n.ok
        THEN DeserMapEntries(K, V, LoopCount(n.val, buf, n.pos), buf, n.pos, <<>>)
        ELSE n

Deser(T, buf, pos) ==
    CASE T[1] = "u8" -> u8_deserialize(buf, pos)
      [] T[1] = "usize" -> u64_deserialize(buf, pos)
      [] T[1] = "u64" -> u64_deserialize(buf, pos)
      [] T[1] = "i32" -> i32_deserialize(buf, pos)
      [] T[1] = "Vec" -> DeserVec(T[2], buf, pos)
      [] T[1] = "Map" -> DeserMap(T[2], T[3], buf, pos)
      [] T[1] = "Option" -> DeserOption(T[2], buf, pos)
      [] T[1] = "Tuple2" -> DeserTuple2(T[2], T[3], buf, pos)
      [] T[1] = "Enum" -> DeserEnum(T[2], T[3], buf, pos)
      [] T[1] = "Struct" -> DeserFields(T[2], T[3], 1, buf, pos, <<>>)
      [] T[1] = "MachineValue" -> MachineValue_deserialize(buf, pos)

(***************************************************************************)
(* ExceptionTable (main.rs 219-239, 305-340).  Its serializer reads the    *)
(* std HashMap through the struct mirror HashMap2/HashMap3/RawTable, so    *)
(* the table is modelled as that raw table: bucket_mask, growth_left,      *)
(* items, and per bucket either an entry with its control byte h2 (7 bits  *)
(* of the key's hash) or nothing.  The hasher is seeded at random per map  *)
(* (RandomState), so the bucket an entry lands in and its h2 are chosen    *)
(* nondeterministically.  `alloc` tells the static empty singleton of      *)
(* HashMap::new() from an allocated table.                                 *)
(***************************************************************************)
ExceptionCodeNames ==
    << "Unreachable", "IncorrectCallIndirectSignature", "MemoryOutOfBounds",
       "CallIndirectOOB", "IllegalArithmetic", "MisalignedAtomicAccess" >>
TyExceptionCode ==
    TyEnum(ExceptionCodeNames, <<TyUnit, TyUnit, TyUnit, TyUnit, TyUnit, TyUnit>>)
ExceptionCode(name) == [tag |-> name]

\* The derived deserializer's view: a struct of one HashMap field.
TyExceptionTable == TyStruct(<<"offset_to_code">>, <<TyMap(TyUsize, TyExceptionCode)>>)

\* Control bytes (h2) an entry may get.
H2Values == {33, 100}

\* What uninitialized or foreign memory may hold, and what serializing an
\* invalid ExceptionCode may write.
UninitFills == {[byte |-> 0, code |-> 0], [byte |-> 170, code |-> 3]}

\* Code offsets and codes of the entries inserted.
TrapOffsets == {U(16), U(32), U(70000)}
TrapCodes == {ExceptionCode("Unreachable"), ExceptionCode("MemoryOutOfBounds")}

EmptySlot == [full |-> FALSE]
FullSlot(k, v, h2) == [full |-> TRUE, key |-> k, code |-> v, h2 |-> h2]

\* HashMap::new(): no allocation, one bucket of the static empty group.
HashMap_new ==
    [alloc |-> FALSE, bucket_mask |-> 0, growth_left |-> 0, items |-> 0,
     slots |-> <<EmptySlot>>]

Buckets(t) == t.bucket_mask + 1
FullIdx(t) == {i \in 1..Len(t.slots) : t.slots[i].full}

\* The map a raw table holds.
Entries(t) ==
    [k \in {t.slots[i].key : i \in FullIdx(t)} |->
        LET i == CHOOSE j \in FullIdx(t) : t.slots[j].key = k IN t.slots[i].code]

RECURSIVE NextPowerOfTwo(_, _)
NextPowerOfTwo(n, p) == IF p >= n THEN p ELSE NextPowerOfTwo(n, 2 * p)

\* hashbrown's table sizes.
capacity_to_buckets(cap) ==
    IF cap < 8 THEN (IF cap < 4 THEN 4 ELSE 8) ELSE NextPowerOfTwo((cap * 8) \div 7, 1)
bucket_mask_to_capacity(mask) == IF mask < 8 THEN mask ELSE ((mask + 1) \div 8) * 7

\* RawTable::resize: a new table of capacity cap holding the same entries,
\* each in the bucket its hash selects there.
Resized(t, cap) ==
    LET nb == capacity_to_buckets(cap)
        old == FullIdx(t)
    IN  { [alloc |-> TRUE, bucket_mask |-> nb - 1,
           growth_left |-> bucket_mask_to_capacity(nb - 1) - t.items,
           items |-> t.items,
           slots |-> [i \in 1..nb |->
                        IF \E j \in old : f[j] = i
                        THEN t.slots[CHOOSE j \in old : f[j] = i]
                        ELSE EmptySlot]] :
          f \in {g \in [old -> 1..nb] : \A a, b \in old : a # b => g[a] # g[b]} }

\* RawTable::reserve_rehash(1), called by insert when growth_left = 0.  No
\* entry is ever removed, so there are no tombstones and the table is full.
Reserved(t) ==
    IF t.growth_left = 0
    THEN LET cap == bucket_mask_to_capacity(t.bucket_mask)
         IN  Resized(t, IF t.items + 1 > cap + 1 THEN t.items + 1 ELSE cap + 1)
    ELSE {t}

\* HashMap::insert(k, v): a present key has its value replaced in place; a
\* new key goes to an empty bucket of the (if needed, grown) table.
HashMap_insert(t, k, v) ==
    IF \E i \in FullIdx(t) : t.slots[i].key = k
    THEN LET i == CHOOSE j \in FullIdx(t) : t.slots[j].key = k
         IN  {[t EXCEPT !.slots[i].code = v]}
    ELSE UNION { { [nt EXCEPT !.slots[i] = FullSlot(k, v, h2),
                              !.growth_left = nt.growth_left - 1,
                              !.items = nt.items + 1] :
                     i \in (1..Len(nt.slots)) \ FullIdx(nt), h2 \in H2Values } :
                 nt \in Reserved(t) }

\* A control byte: h2 of a full bucket, EMPTY (0xFF) of an empty one; the
\* bytes after the buckets are EMPTY up to the group width (16) and then
\* repeat the first bytes.
CtrlByte(t, i) ==
    LET b == Buckets(t)
        m == IF b < 16 THEN 16 ELSE b
        c(j) == IF t.slots[j + 1].full THEN t.slots[j + 1].h2 ELSE 255
    IN  IF i < b THEN c(i) ELSE IF i < m THEN 255 ELSE c(i - m)

\* The byte of memory o bytes after `ctrl`: a control byte, or, past the
\* control bytes, whatever lies there (fill.byte).
CtrlMem(t, o, fill) ==
    IF t.alloc THEN (IF o < Buckets(t) + 16 THEN CtrlByte(t, o) ELSE fill.byte)
    ELSE (IF o < 16 THEN 255 ELSE fill.byte)

\* The byte the derived ExceptionCode serializer writes for a code whose
\* memory holds m: the discriminant when m is one, else undefined (fill.code).
EnumByte(m, fill) == IF m \in 0..5 THEN m ELSE fill.code

\* Element j (from 0) of the slice of (usize, ExceptionCode) that starts
\* `buckets` elements before `ctrl`: the buckets, last bucket first -- an
\* entry, or uninitialized memory -- and then the memory from `ctrl` on, 16
\* bytes per element, the usize in its first 8 bytes and the code in the 9th.
RawElement(t, j, fill) ==
    LET b == Buckets(t)
    IN  IF j < b
        THEN (IF t.alloc /\ t.slots[b - j].full
              THEN u64_serialize(t.slots[b - j].key)
                   \o <<IndexOf(ExceptionCodeNames, t.slots[b - j].code.tag) - 1>>
              ELSE [i \in 1..8 |-> fill.byte] \o <<EnumByte(fill.byte, fill)>>)
        ELSE LET o == 16 * (j - b)
             IN  [i \in 1..8 |-> CtrlMem(t, o + i - 1, fill)]
                 \o <<EnumByte(CtrlMem(t, o + 8, fill), fill)>>

RECURSIVE RawElements(_, _, _, _)
RawElements(t, j, n, fill) ==
    IF j = n THEN <<>> ELSE RawElement(t, j, fill) \o RawElements(t, j + 1, n, fill)

\* ExceptionTable::serialize: bucket_mask, growth_left, items, then the
\* slice of buckets + buckets + 16 elements (a u32 count and the elements).
ExceptionTable_serialize(t, fill) ==
    LET buckets == t.bucket_mask + 1
    IN  u64_serialize(U(t.bucket_mask)) \o u64_serialize(U(t.growth_left))
        \o u64_serialize(U(t.items))
        \o u32_serialize(buckets + buckets + 16)
        \o RawElements(t, 0, buckets + buckets + 16, fill)

(***************************************************************************)
(* The state-map structures (main.rs 27-73, 173-217, 241-249), all with    *)
(* derived codecs: a struct is its fields in declaration order, an enum    *)
(* its variant index and payload.  RegisterIndex(usize) is the usize.      *)
(***************************************************************************)
TyRegisterIndex == TyUsize

TyWasmAbstractValue == TyEnum(<<"Runtime", "Const">>, <<TyUnit, TyU64>>)
Runtime == [tag |-> "Runtime"]
Const(c) == [tag |-> "Const", p |-> c]

TySuspendOffset ==
    TyEnum(<<"Loop", "Call", "Trappable">>, <<TyUsize, TyUsize, TyUsize>>)
SuspendOffset(kind, off) == [tag |-> kind, p |-> off]

TyOffsetInfo ==
    TyStruct(<<"end_offset", "diff_id", "activate_offset">>,
             <<TyUsize, TyUsize, TyUsize>>)
OffsetInfo(e, d, a) == [end_offset |-> e, diff_id |-> d, activate_offset |-> a]

TyMachineState ==
    TyStruct(<<"stack_values", "register_values", "prev_frame", "wasm_stack",
               "wasm_stack_private_depth", "wasm_inst_offset">>,
             <<TyVec(TyMachineValue), TyVec(TyMachineValue),
               TyMap(TyUsize, TyMachineValue), TyVec(TyWasmAbstractValue),
               TyUsize, TyUsize>>)

TyMachineStateDiff ==
    TyStruct(<<"last", "stack_push", "stack_pop", "reg_diff", "prev_frame_diff",
               "wasm_stack_push", "wasm_stack_pop", "wasm_stack_private_depth",
               "wasm_inst_offset">>,
             <<TyOption(TyUsize), TyVec(TyMachineValue), TyUsize,
               TyVec(TyTuple2(TyRegisterIndex, TyMachineValue)),
               TyMap(TyUsize, TyOption(TyMachineValue)),
               TyVec(TyWasmAbstractValue), TyUsize, TyUsize, TyUsize>>)

TyFunctionStateMap ==
    TyStruct(<<"initial", "local_function_id", "locals", "shadow_size", "diffs",
               "wasm_function_header_target_offset", "wasm_offset_to_target_offset",
               "loop_offsets", "call_offsets", "trappable_offsets">>,
             <<TyMachineState, TyUsize, TyVec(TyWasmAbstractValue), TyUsize,
               TyVec(TyMachineStateDiff), TyOption(TySuspendOffset),
               TyMap(TyUsize, TySuspendOffset), TyMap(TyUsize, TyOffsetInfo),
               TyMap(TyUsize, TyOffsetInfo), TyMap(TyUsize, TyOffsetInfo)>>)

TyModuleStateMap ==
    TyStruct(<<"local_functions", "total_size">>,
             <<TyMap(TyUsize, TyFunctionStateMap), TyUsize>>)

(***************************************************************************)
(* CacheImage (main.rs 4-25, 251-287).                                     *)
(***************************************************************************)
CacheImageFields ==
    << "code", "function_pointers", "function_offsets", "func_import_count",
       "msm", "exception_table" >>

\* The derived serializer: the fields in declaration order, the exception
\* table by its own serializer.
CacheImage_serialize(img, fill) ==
    Ser(TyVec(TyU8), img.code)
    \o Ser(TyVec(TyUsize), img.function_pointers)
    \o Ser(TyVec(TyUsize), img.function_offsets)
    \o Ser(TyUsize, img.func_import_count)
    \o Ser(TyModuleStateMap, img.msm)
    \o ExceptionTable_serialize(img.exception_table, fill)

\* let func_import_count: u64 = deserialize(buf)?; ... as usize
DeFuncImportCountShort(buf, pos) ==
    LET r == u32_deserialize(buf, pos) IN IF r.ok THEN Ok(U(r.val), r.pos) ELSE r
DeFuncImportCount(buf, pos) == u64_deserialize(buf, pos)

\* The i-th deserialize call of CacheImage::deserialize.
CacheImage_deserialize_field(i, buf, pos) ==
    CASE i = 1 -> Deser(TyVec(TyU8), buf, pos)
      [] i = 2 -> Deser(TyVec(TyUsize), buf, pos)
      [] i = 3 -> Deser(TyVec(TyUsize), buf, pos)
      [] i = 4 -> DeFuncImportCount(buf, pos)
      [] i = 5 -> Deser(TyModuleStateMap, buf, pos)
      [] i = 6 -> Deser(TyExceptionTable, buf, pos)

\* The `?` after each call: an Err is returned to the caller as it is.
PropagateAsDefault(r) == IF r.ok THEN r ELSE Ok(<<>>, r.pos)
Propagate(r) == r

\* The unread part of a buffer.
Rest(buf, pos) == SubSeq(buf, pos, Len(buf))

(***************************************************************************)
(* The MachineValue stream: values are serialized back to back into one    *)
(* writer, a reader is opened on the bytes written (followed by further    *)
(* bytes of the file) or on raw bytes, and values are deserialized one     *)
(* call at a time.                                                         *)
(***************************************************************************)
MachineValues ==
    << Undefined,
       Vmctx,
       VmctxDeref(<<>>),
       VmctxDeref(<<U(0), U(70000)>>),
       PreserveRegister(U(3)),
       CopyStackBPRelative(-8),
       CopyStackBPRelative(300),
       ExplicitShadow,
       WasmStack(U(1)),
       WasmStack(U64Max),
       WasmLocal(U(258)),
       TwoHalves(Undefined, WasmStack(U(2))),
       TwoHalves(TwoHalves(Vmctx, WasmLocal(U(0))),
                 TwoHalves(CopyStackBPRelative(-1), VmctxDeref(<<U(5)>>))) >>

\* Bytes that may follow the written values in the reader's buffer.
Tails == << <<>>, <<0>>, <<9>>, <<8, 255>>, <<6, 1, 0, 0>> >>

\* Bytes of raw buffers: discriminants of payload-free variants (0, 1, 5), of
\* TwoHalves (8), of a variant with a payload (6), and bytes that are no
\* discriminant (9, 255).
RawBytes == {0, 1, 5, 6, 8, 9, 255}

RECURSIVE RawBuffers(_)
RawBuffers(n) ==
    IF n = 0 THEN {<<>>}
    ELSE LET S == RawBuffers(n - 1)
         IN  S \cup {Append(s, b) : s \in {t \in S : Len(t) = n - 1}, b \in RawBytes}

RECURSIVE SerAll(_)
SerAll(xs) == IF xs = <<>> THEN <<>> ELSE MachineValue_serialize(Head(xs)) \o SerAll(Tail(xs))

MVIdle ==
    /\ mv_phase = "write" /\ mv_written = <<>> /\ mv_wbuf = <<>> /\ mv_tail = <<>>
    /\ mv_rsrc = <<>> /\ mv_rbuf = <<>> /\ mv_read = <<>> /\ mv_err = ""

\* x.serialize(&mut writer)
MVSerialize(x) ==
    /\ mv_phase = "write"
    /\ Len(mv_written) < MaxValues
    /\ mv_wbuf' = mv_wbuf \o MachineValue_serialize(x)
    /\ mv_written' = Append(mv_written, x)
    /\ UNCHANGED <<mv_phase, mv_tail, mv_rsrc, mv_rbuf, mv_read, mv_err>>

\* A reader over the bytes written, followed by s.
MVOpenReader(s) ==
    /\ mv_phase = "write"
    /\ mv_written # <<>>
    /\ mv_phase' = "read"
    /\ mv_tail' = s
    /\ mv_rsrc' = mv_wbuf \o s
    /\ mv_rbuf' = mv_wbuf \o s
    /\ UNCHANGED <<mv_written, mv_wbuf, mv_read, mv_err>>

\* A reader over bytes no encoder wrote.
MVOpenRaw(b) ==
    /\ mv_phase = "write"
    /\ mv_written = <<>>
    /\ mv_phase' = "raw"
    /\ mv_rsrc' = b
    /\ mv_rbuf' = b
    /\ UNCHANGED <<mv_written, mv_wbuf, mv_tail, mv_read, mv_err>>

\* MachineValue::deserialize(&mut buf): on Ok the reader is advanced and the
\* value kept; on Err the error is returned and the reader is not used again.
MVDeserialize ==
    /\ mv_phase \in {"read", "raw"}
    /\ mv_err = ""
    /\ Len(mv_read) < (IF mv_phase = "read" THEN Len(mv_written) ELSE 1)
    /\ LET r == MachineValue_deserialize(mv_rbuf, 1)
       IN  IF r.ok
           THEN /\ mv_read' = Append(mv_read, r.val)
                /\ mv_rbuf' = Rest(mv_rbuf, r.pos)
                /\ mv_err' = mv_err
           ELSE /\ mv_err' = r.err
                /\ UNCHANGED <<mv_read, mv_rbuf>>
    /\ UNCHANGED <<mv_phase, mv_written, mv_wbuf, mv_tail, mv_rsrc>>

OffET ==
    /\ et_phase = "off" /\ et_table = <<>> /\ et_inserts = 0 /\ et_out = <<>>
    /\ et_dec = <<>>
OffCI ==
    /\ ci_phase = "off" /\ ci_image = <<>> /\ ci_src = "" /\ ci_buf = <<>> /\ ci_pc = 0
    /\ ci_fields = <<>> /\ ci_log = <<>> /\ ci_err = "" /\ ci_result = <<>>
OffSM ==
    /\ sm_phase = "off" /\ sm_fsm = <<>> /\ sm_query = <<>> /\ sm_info = <<>>
    /\ sm_chain = <<>> /\ sm_state = <<>> /\ sm_err = ""

(***************************************************************************)
(* The exception table: built by inserts, serialized, and the bytes        *)
(* deserialized by the derived deserializer.                               *)
(***************************************************************************)
\* offset_to_code.insert(k, v)
ETInsert(k, v) ==
    /\ et_phase = "build"
    /\ et_inserts < MaxInserts
    /\ et_table' \in HashMap_insert(et_table, k, v)
    /\ et_inserts' = et_inserts + 1
    /\ UNCHANGED <<et_phase, et_out, et_dec>>

\* table.serialize(&mut writer)
ETSerialize(fill) ==
    /\ et_phase = "build"
    /\ et_out' = ExceptionTable_serialize(et_table, fill)
    /\ et_phase' = "serialized"
    /\ UNCHANGED <<et_table, et_inserts, et_dec>>

\* ExceptionTable::deserialize(&mut &bytes[..])
ETDeserialize ==
    /\ et_phase = "serialized"
    /\ et_dec' = Deser(TyExceptionTable, et_out, 1)
    /\ et_phase' = "deserialized"
    /\ UNCHANGED <<et_table, et_inserts, et_out>>

(***************************************************************************)
(* Cache images, and the run of CacheImage::deserialize over a file: the   *)
(* bytes the serializer wrote for an image, those bytes cut short, or      *)
(* those bytes with one byte changed.                                      *)
(***************************************************************************)
Baseline ==
    [stack_values |-> <<PreserveRegister(U(3))>>,
     register_values |-> <<Undefined, WasmLocal(U(0))>>,
     prev_frame |-> (U(4) :> CopyStackBPRelative(-8)) @@ (U(5) :> Vmctx),
     wasm_stack |-> <<Runtime, Const(U(7))>>,
     wasm_stack_private_depth |-> U(1),
     wasm_inst_offset |-> U(0)]

Diff(last, push, pop, regs, frame, wpush, wpop, depth, off) ==
    [last |-> last, stack_push |-> push, stack_pop |-> pop, reg_diff |-> regs,
     prev_frame_diff |-> frame, wasm_stack_push |-> wpush, wasm_stack_pop |-> wpop,
     wasm_stack_private_depth |-> depth, wasm_inst_offset |-> off]

\* D1 pushes a stack value, D2 overrides register 1 and removes frame slot
\* 4, D3 pops the value.
SampleDiffs ==
    << Diff(None, <<WasmStack(U(0))>>, U(0), <<>>, <<>>, <<Runtime>>, U(0), U(1), U(3)),
       Diff(Some(U(0)), <<>>, U(0), <<<<U(1), TwoHalves(Vmctx, Undefined)>>>>,
            U(4) :> None, <<>>, U(0), U(1), U(5)),
       Diff(Some(U(1)), <<>>, U(1), <<>>, U(6) :> Some(ExplicitShadow), <<>>, U(1),
            U(1), U(9)) >>

SampleFunction ==
    [initial |-> Baseline,
     local_function_id |-> U(0),
     locals |-> <<Runtime, Const(U(1))>>,
     shadow_size |-> U(32),
     diffs |-> SampleDiffs,
     wasm_function_header_target_offset |-> Some(SuspendOffset("Call", U(2))),
     wasm_offset_to_target_offset |-> U(3) :> SuspendOffset("Trappable", U(12)),
     loop_offsets |-> U(40) :> OffsetInfo(U(100), U(0), U(45)),
     call_offsets |-> U(10) :> OffsetInfo(U(50), U(2), U(10)),
     trappable_offsets |-> <<>>]

OneEntryTable ==
    CHOOSE t \in HashMap_insert(HashMap_new, U(16), ExceptionCode("MemoryOutOfBounds")) :
        t.slots[2].full /\ t.slots[2].h2 = 33

Images ==
    << [code |-> <<>>, function_pointers |-> <<>>, function_offsets |-> <<>>,
        func_import_count |-> U(0),
        msm |-> [local_functions |-> <<>>, total_size |-> U(0)],
        exception_table |-> HashMap_new],
       [code |-> <<144, 195>>, function_pointers |-> <<U(0)>>,
        function_offsets |-> <<U(4)>>, func_import_count |-> U(1),
        msm |-> [local_functions |-> U(0) :> SampleFunction, total_size |-> U(2)],
        exception_table |-> OneEntryTable] >>

\* Values a changed byte may take.
CorruptBytes == {2, 9}

CIIdle ==
    /\ ci_phase = "idle" /\ ci_image = <<>> /\ ci_src = "" /\ ci_buf = <<>> /\ ci_pc = 0
    /\ ci_fields = <<>> /\ ci_log = <<>> /\ ci_err = "" /\ ci_result = <<>>

\* The file holds the serialization of an image.
CILoad(img, fill) ==
    /\ ci_phase = "idle"
    /\ ci_phase' = "loaded"
    /\ ci_image' = img
    /\ ci_src' = "encoded"
    /\ ci_buf' = CacheImage_serialize(img, fill)
    /\ ci_pc' = 1
    /\ UNCHANGED <<ci_fields, ci_log, ci_err, ci_result>>

\* The file was cut short.
CITruncate(n) ==
    /\ ci_phase = "loaded" /\ ci_src = "encoded"
    /\ n < Len(ci_buf)
    /\ ci_buf' = SubSeq(ci_buf, 1, n)
    /\ ci_src' = "truncated"
    /\ UNCHANGED <<ci_phase, ci_image, ci_pc, ci_fields, ci_log, ci_err, ci_result>>

\* One byte of the file was changed.
CICorrupt(p, b) ==
    /\ ci_phase = "loaded" /\ ci_src = "encoded"
    /\ p \in 1..Len(ci_buf)
    /\ ci_buf[p] # b
    /\ ci_buf' = [ci_buf EXCEPT ![p] = b]
    /\ ci_src' = "corrupt"
    /\ UNCHANGED <<ci_phase, ci_image, ci_pc, ci_fields, ci_log, ci_err, ci_result>>

\* One `let field = BorshDeserialize::deserialize(buf)?;` of
\* CacheImage::deserialize.
CIDeserializeField ==
    /\ ci_phase \in {"loaded", "decoding"}
    /\ ci_pc \in 1..6
    /\ LET raw == CacheImage_deserialize_field(ci_pc, ci_buf, 1)
           r == Propagate(raw)
       IN  /\ ci_log' = Append(ci_log, IF raw.ok THEN "ok" ELSE "err")
           /\ IF r.ok
              THEN /\ ci_fields' = [f \in (DOMAIN ci_fields) \cup {CacheImageFields[ci_pc]}
                                       |-> IF f = CacheImageFields[ci_pc] THEN r.val
                                           ELSE ci_fields[f]]
                   /\ ci_buf' = Rest(ci_buf, r.pos)
                   /\ ci_pc' = ci_pc + 1
                   /\ ci_phase' = "decoding"
                   /\ ci_err' = ci_err
              ELSE /\ ci_err' = r.err
                   /\ ci_phase' = "returned"
                   /\ UNCHANGED <<ci_fields, ci_buf, ci_pc>>
    /\ UNCHANGED <<ci_image, ci_src, ci_result>>

\* Ok(Self { code, function_pointers, ... })
CIReturn ==
    /\ ci_phase = "decoding"
    /\ ci_pc = 7
    /\ ci_result' = <<ci_fields>>
    /\ ci_phase' = "returned"
    /\ UNCHANGED <<ci_image, ci_src, ci_buf, ci_pc, ci_fields, ci_log, ci_err>>

(***************************************************************************)
(* Checkpoint reconstruction.  main.rs declares the structures only (35-73,*)
(* 184-207, 241-249) and holds no lookup or replay code; the operations    *)
(* below follow the specification's section 4.1.                           *)
(***************************************************************************)
\* Step 1: the entry with the greatest key <= q, if its end_offset is > q.
LookupInclusiveEnd(index, q) ==
    LET keys == {k \in DOMAIN index : k = q \/ U64Less(k, q)}
    IN  IF keys = {} THEN Err("OffsetNotCovered", 0)
        ELSE LET k == CHOOSE j \in keys : \A i \in keys : i = j \/ U64Less(i, j)
             IN  IF U64Less(q, index[k].end_offset) \/ q = index[k].end_offset
                 THEN Ok(index[k], 0)
                 ELSE Err("OffsetNotCovered", 0)
Lookup(index, q) ==
    LET keys == {k \in DOMAIN index : k = q \/ U64Less(k, q)}
    IN  IF keys = {} THEN Err("OffsetNotCovered", 0)
        ELSE LET k == CHOOSE j \in keys : \A i \in keys : i = j \/ U64Less(i, j)
             IN  IF U64Less(q, index[k].end_offset) THEN Ok(index[k], 0)
                 ELSE Err("OffsetNotCovered", 0)

\* The first n elements of s, or none when n < 0.
Keep(s, n) == IF n <= 0 THEN <<>> ELSE SubSeq(s, 1, n)

RECURSIVE ApplyRegDiff(_, _)
ApplyRegDiff(regs, rd) ==
    IF rd = <<>> THEN regs
    ELSE LET r == U64ToNat(Head(rd)[1]) + 1
         IN  ApplyRegDiff(IF r \in 1..Len(regs) THEN [regs EXCEPT ![r] = Head(rd)[2]]
                          ELSE regs,
                          Tail(rd))

\* The frame-slot mapping with the diff's entries applied: a value sets the
\* key, an absent value removes it.
ApplyFrameDiff(frame, fd) ==
    LET removed == {k \in DOMAIN fd : ~fd[k].some}
        set == {k \in DOMAIN fd : fd[k].some}
    IN  [k \in ((DOMAIN frame) \ removed) \cup set |->
            IF k \in set THEN fd[k].val ELSE frame[k]]

\* Step 4, for one diff.
ApplyDiffNoPop(st, d) ==
    [stack_values |-> st.stack_values \o d.stack_push,
     register_values |-> ApplyRegDiff(st.register_values, d.reg_diff),
     prev_frame |-> ApplyFrameDiff(st.prev_frame, d.prev_frame_diff),
     wasm_stack |-> st.wasm_stack \o d.wasm_stack_push,
     wasm_stack_private_depth |-> d.wasm_stack_private_depth,
     wasm_inst_offset |-> d.wasm_inst_offset]
ApplyDiff(st, d) ==
    [stack_values |->
        Keep(st.stack_values \o d.stack_push,
             Len(st.stack_values) + Len(d.stack_push) - U64ToNat(d.stack_pop)),
     register_values |-> ApplyRegDiff(st.register_values, d.reg_diff),
     prev_frame |-> ApplyFrameDiff(st.prev_frame, d.prev_frame_diff),
     wasm_stack |->
        Keep(st.wasm_stack \o d.wasm_stack_push,
             Len(st.wasm_stack) + Len(d.wasm_stack_push) - U64ToNat(d.wasm_stack_pop)),
     wasm_stack_private_depth |-> d.wasm_stack_private_depth,
     wasm_inst_offset |-> d.wasm_inst_offset]

RECURSIVE Reverse(_)
Reverse(s) == IF s = <<>> THEN <<>> ELSE Append(Reverse(Tail(s)), Head(s))

\* Function state maps queried: D1 pushes x, D2 sets register r to v and
\* removes frame slot k, D3 pops one value; `last3` is D3's back-reference.
ScenarioDiffs(x, r, v, k, last3) ==
    << Diff(None, <<x>>, U(0), <<>>, <<>>, <<>>, U(0), U(1), U(3)),
       Diff(Some(U(0)), <<>>, U(0), <<<<U(r), v>>>>, U(k) :> None, <<>>, U(0), U(2), U(5)),
       Diff(last3, <<>>, U(1), <<>>, <<>>, <<>>, U(0), U(1), U(9)) >>

ScenarioFunction(x, r, v, k, last3) ==
    [SampleFunction EXCEPT
        !.diffs = ScenarioDiffs(x, r, v, k, last3),
        !.call_offsets = (U(10) :> OffsetInfo(U(50), U(2), U(10)))
                         @@ (U(60) :> OffsetInfo(U(100), U(1), U(60))),
        !.loop_offsets = U(40) :> OffsetInfo(U(100), U(0), U(45)),
        !.trappable_offsets = U(99) :> OffsetInfo(U(101), U(7), U(99))]

PushedValues == {WasmStack(U(0)), TwoHalves(Vmctx, Undefined)}
OverrideValues == {Vmctx, CopyStackBPRelative(-16)}
BackReferences == {Some(U(1)), Some(U(2)), Some(U(5))}
OffsetIndexes == {"loop_offsets", "call_offsets", "trappable_offsets"}
QueryOffsets == {U(0), U(9), U(10), U(49), U(50), U(60), U(99), U(100), U(101)}

SMIdle ==
    /\ sm_phase = "idle" /\ sm_fsm = <<>> /\ sm_query = <<>> /\ sm_info = <<>>
    /\ sm_chain = <<>> /\ sm_state = <<>> /\ sm_err = ""

\* Steps 1 and 2: the lookup in the index the caller names.
SMLookup(fsm, index, q) ==
    /\ sm_phase = "idle"
    /\ sm_fsm' = fsm
    /\ sm_query' = <<index, q>>
    /\ LET r == Lookup(fsm[index], q)
       IN  IF r.ok
           THEN sm_info' = r.val /\ sm_phase' = "walk" /\ sm_err' = sm_err
           ELSE sm_info' = sm_info /\ sm_phase' = "failed" /\ sm_err' = r.err
    /\ UNCHANGED <<sm_chain, sm_state>>

\* Step 3, one link: the selected diff first, then each diff's `last`; an
\* index outside `diffs` or met before is a corrupt chain.
SMWalk ==
    /\ sm_phase = "walk"
    /\ LET cur == IF sm_chain = <<>> THEN Some(sm_info.diff_id)
                  ELSE sm_fsm.diffs[sm_chain[Len(sm_chain)]].last
           i == U64ToNat(cur.val) + 1
       IN  IF ~cur.some
           THEN /\ sm_chain' = Reverse(sm_chain)
                /\ sm_state' = sm_fsm.initial
                /\ sm_phase' = "apply"
                /\ sm_err' = sm_err
           ELSE IF i \notin 1..Len(sm_fsm.diffs) \/ \E j \in 1..Len(sm_chain) : sm_chain[j] = i
           THEN /\ sm_err' = "DiffChainCorrupt"
                /\ sm_phase' = "failed"
                /\ UNCHANGED <<sm_chain, sm_state>>
           ELSE /\ sm_chain' = Append(sm_chain, i)
                /\ UNCHANGED <<sm_state, sm_phase, sm_err>>
    /\ UNCHANGED <<sm_fsm, sm_query, sm_info>>

\* Step 4, one diff, in baseline-to-selected order.
SMApply ==
    /\ sm_phase = "apply"
    /\ sm_chain # <<>>
    /\ sm_state' = ApplyDiff(sm_state, sm_fsm.diffs[Head(sm_chain)])
    /\ sm_chain' = Tail(sm_chain)
    /\ sm_phase' = IF Len(sm_chain) = 1 THEN "done" ELSE "apply"
    /\ UNCHANGED <<sm_fsm, sm_query, sm_info, sm_err>>

MVOff ==
    /\ mv_phase = "off" /\ mv_written = <<>> /\ mv_wbuf = <<>> /\ mv_tail = <<>>
    /\ mv_rsrc = <<>> /\ mv_rbuf = <<>> /\ mv_read = <<>> /\ mv_err = ""

InitMV == MVIdle /\ OffET /\ OffCI /\ OffSM

MVWrite == \E i \in 1..Len(MachineValues) : MVSerialize(MachineValues[i])
MVRead == \E i \in 1..Len(Tails) : MVOpenReader(Tails[i])
MVRaw == \E b \in RawBuffers(MaxRawLen) : MVOpenRaw(b)
MVDecode == MVDeserialize

NextMV ==
    \/ MVWrite /\ UNCHANGED <<et_vars, ci_vars, sm_vars>>
    \/ MVRead /\ UNCHANGED <<et_vars, ci_vars, sm_vars>>
    \/ MVRaw /\ UNCHANGED <<et_vars, ci_vars, sm_vars>>
    \/ MVDecode /\ UNCHANGED <<et_vars, ci_vars, sm_vars>>

SpecMV == InitMV /\ [][NextMV]_vars

(***************************************************************************)
(* Properties of the MachineValue codec.                                   *)
(***************************************************************************)
\* C1: decoding the bytes produced by encoding a MachineValue yields that
\* value: every value read from a reader over encoder-written bytes equals
\* the value written at the same place, and no such read fails.
C1_RoundTrip ==
    mv_phase = "read" =>
        /\ mv_err = ""
        /\ Len(mv_read) <= Len(mv_written)
        /\ \A i \in 1..Len(mv_read) : mv_read[i] = mv_written[i]

\* A TwoHalves of two TwoHalves, a VmctxDeref and a WasmStack have been read back.
C1_Witness ==
    /\ mv_phase = "read"
    /\ Len(mv_read) = 2
    /\ mv_read[1].tag = "TwoHalves" /\ mv_read[1].a.tag = "TwoHalves"
    /\ mv_read[1].b.tag = "TwoHalves"
    /\ mv_read[2] = WasmStack(U64Max)

\* Whether, reading values from position p with `pending` values still to
\* read, a discriminant outside 0..8 is met after payload-free values and
\* TwoHalves discriminants only.
RECURSIVE MeetsBadDiscriminant(_, _, _)
MeetsBadDiscriminant(b, p, pending) ==
    IF pending = 0 \/ p > Len(b) THEN FALSE
    ELSE IF b[p] \notin 0..8 THEN TRUE
    ELSE IF b[p] \in {0, 1, 5} THEN MeetsBadDiscriminant(b, p + 1, pending - 1)
    ELSE IF b[p] = 8 THEN MeetsBadDiscriminant(b, p + 1, pending + 1)
    ELSE FALSE

\* C2: decoding a MachineValue whose discriminant byte is outside 0..8, at
\* the top or inside a TwoHalves payload, returns the error "Unexpected
\* variant" and no value.
C2_UnknownVariantRejected ==
    (mv_phase = "raw" /\ (mv_read # <<>> \/ mv_err # "")
        /\ MeetsBadDiscriminant(mv_rsrc, 1, 1))
    => (mv_err = "UnexpectedVariant" /\ mv_read = <<>>)

\* A 9 inside a TwoHalves payload has been rejected.
C2_Witness ==
    /\ mv_phase = "raw"
    /\ mv_rsrc = <<8, 0, 9>>
    /\ mv_err = "UnexpectedVariant"

\* C10: MachineValue encoding is self-delimiting: after any number of reads
\* from encode(x1) .. encode(xn) followed by s, no read has failed and the
\* unread bytes are exactly the encodings of the values not yet read,
\* followed by s.
C10_SelfDelimiting ==
    mv_phase = "read" =>
        /\ mv_err = ""
        /\ Len(mv_read) <= Len(mv_written)
        /\ mv_read = SubSeq(mv_written, 1, Len(mv_read))
        /\ mv_rbuf = SerAll(SubSeq(mv_written, Len(mv_read) + 1, Len(mv_written)))
                     \o mv_tail

\* Two values have been read and the reader stands at the start of a
\* non-empty s.
C10_Witness ==
    /\ mv_phase = "read"
    /\ Len(mv_read) = 2
    /\ mv_tail = <<8, 255>>
    /\ mv_rbuf = mv_tail

InitET ==
    /\ et_phase = "build" /\ et_table = HashMap_new /\ et_inserts = 0
    /\ et_out = <<>> /\ et_dec = <<>>
    /\ MVOff /\ OffCI /\ OffSM

ETBuild == \E k \in TrapOffsets, v \in TrapCodes : ETInsert(k, v)
ETEncode == \E fill \in UninitFills : ETSerialize(fill)
ETDecode == ETDeserialize

NextET ==
    \/ ETBuild /\ UNCHANGED <<mv_vars, ci_vars, sm_vars>>
    \/ ETEncode /\ UNCHANGED <<mv_vars, ci_vars, sm_vars>>
    \/ ETDecode /\ UNCHANGED <<mv_vars, ci_vars, sm_vars>>

SpecET == InitET /\ [][NextET]_vars

(***************************************************************************)
(* Properties of the exception table codec.                                *)
(***************************************************************************)
\* C3: the bytes of an encoded exception table are its (offset, code)
\* pairs in ascending offset order (a count, then the pairs), and so depend
\* on its entries only, not on how the table was built.
C3_EncodingIsSortedPairs ==
    et_phase \in {"serialized", "deserialized"} =>
        et_out = Ser(TyMap(TyUsize, TyExceptionCode), Entries(et_table))

\* C4: decoding the bytes of an encoded exception table succeeds and
\* yields a table with the same offset-to-code entries.
C4_ExceptionTableRoundTrip ==
    et_phase = "deserialized" =>
        /\ et_dec.ok
        /\ et_dec.val = [offset_to_code |-> Entries(et_table)]

InitCI == CIIdle /\ MVOff /\ OffET /\ OffSM

CIFile == \E i \in 1..Len(Images), fill \in UninitFills : CILoad(Images[i], fill)
CICut == \E n \in 0..Len(ci_buf) : CITruncate(n)
CIFlip == \E p \in 1..Len(ci_buf), b \in CorruptBytes : CICorrupt(p, b)

NextCI ==
    \/ CIFile /\ UNCHANGED <<mv_vars, et_vars, sm_vars>>
    \/ CICut /\ UNCHANGED <<mv_vars, et_vars, sm_vars>>
    \/ CIFlip /\ UNCHANGED <<mv_vars, et_vars, sm_vars>>
    \/ CIDeserializeField /\ UNCHANGED <<mv_vars, et_vars, sm_vars>>
    \/ CIReturn /\ UNCHANGED <<mv_vars, et_vars, sm_vars>>

SpecCI == InitCI /\ [][NextCI]_vars

(***************************************************************************)
(* Properties of CacheImage::deserialize.                                  *)
(***************************************************************************)
\* C5: the decoder reads the fields in the order the encoder wrote them:
\* over the encoder's own output each of the first five fields (code,
\* function_pointers, function_offsets, func_import_count, msm) decodes
\* without error to the field that was encoded.
C5_FieldsInEncoderOrder ==
    ci_src = "encoded" =>
        /\ \A i \in 1..5 :
               i < ci_pc => ci_fields[CacheImageFields[i]] = ci_image[CacheImageFields[i]]
        /\ ci_err # "" => ci_pc = 6

\* The five fields of the image with a function state map have been read.
C5_Witness ==
    /\ ci_src = "encoded"
    /\ ci_pc = 6
    /\ ci_image = Images[2]
    /\ ci_fields["msm"].local_functions[U(0)].diffs = SampleDiffs

\* C6: decoding completes or fails: the fields are read one after another;
\* the first failing read ends the run with its error, with no image and
\* no later field read; an image is returned only after six successful
\* reads and holds all six fields.
C6_CompletesOrFails ==
    /\ \A i \in 1..(Len(ci_log) - 1) : ci_log[i] = "ok"
    /\ ci_err # "" =>
          /\ ci_phase = "returned" /\ ci_result = <<>>
          /\ Len(ci_log) = ci_pc /\ ci_log[ci_pc] = "err"
          /\ DOMAIN ci_fields = {CacheImageFields[i] : i \in 1..(ci_pc - 1)}
    /\ ci_result # <<>> =>
          /\ ci_err = ""
          /\ ci_log = <<"ok", "ok", "ok", "ok", "ok", "ok">>
          /\ ci_result[1] = ci_fields
          /\ DOMAIN ci_fields = {CacheImageFields[i] : i \in 1..6}
    /\ (ci_err = "" /\ Len(ci_log) > 0) => ci_log[Len(ci_log)] = "ok"

\* An unknown discriminant inside the module state map ended the run at the
\* fifth field.
C6_Witness ==
    /\ ci_src = "corrupt"
    /\ ci_err = "UnexpectedVariant"
    /\ ci_pc = 5
    /\ ci_phase = "returned"

\* A diff's `last` is absent or an index below the diff's own.
WellFoundedDiffs(diffs) ==
    \A i \in 1..Len(diffs) :
        diffs[i].last.some => U64Less(diffs[i].last.val, U(i - 1))

\* C7: every decoded function state map has a well-founded diff chain:
\* input where a diff's `last` is not below its own index is rejected.
C7_DecodedDiffChainsWellFounded ==
    ci_pc > 5 =>
        \A f \in DOMAIN ci_fields["msm"].local_functions :
            WellFoundedDiffs(ci_fields["msm"].local_functions[f].diffs)

InitSM == SMIdle /\ MVOff /\ OffET /\ OffCI

SMQuery ==
    \E x \in PushedValues, r \in {0, 1}, v \in OverrideValues, k \in {4, 5},
       last3 \in BackReferences, index \in OffsetIndexes, q \in QueryOffsets :
        SMLookup(ScenarioFunction(x, r, v, k, last3), index, q)

NextSM ==
    \/ SMQuery /\ UNCHANGED <<mv_vars, et_vars, ci_vars>>
    \/ SMWalk /\ UNCHANGED <<mv_vars, et_vars, ci_vars>>
    \/ SMApply /\ UNCHANGED <<mv_vars, et_vars, ci_vars>>

SpecSM == InitSM /\ [][NextSM]_vars

(***************************************************************************)
(* Properties of checkpoint reconstruction.                                *)
(***************************************************************************)
\* The frame-slot mapping without key k.
Without(frame, k) == [j \in (DOMAIN frame) \ {k} |-> frame[j]]

\* C8: the state reconstructed at a diff is the baseline with the diffs of
\* its `last` chain applied in baseline-to-selected order.  For the chain
\* D1 -> D2 -> D3 (D1 pushes one value, D2 overrides one register and
\* removes one frame key, D3 pops the value): at D3 the state is the
\* baseline with only the register override and the key removal, the stack
\* at the baseline's depth; at D2 the pushed value is still on the stack;
\* at D1 only the push shows.  The two absolute fields are the selected
\* diff's.
C8_ReconstructionReplaysChain ==
    (sm_phase = "done" /\ sm_fsm.diffs[3].last = Some(U(1))) =>
        LET d == U64ToNat(sm_info.diff_id) + 1
            x == sm_fsm.diffs[1].stack_push[1]
            r == U64ToNat(sm_fsm.diffs[2].reg_diff[1][1]) + 1
            v == sm_fsm.diffs[2].reg_diff[1][2]
            k == CHOOSE j \in DOMAIN sm_fsm.diffs[2].prev_frame_diff : TRUE
            B == sm_fsm.initial
            after2 == [B EXCEPT !.register_values[r] = v,
                                !.prev_frame = Without(B.prev_frame, k)]
            abs(st) == [st EXCEPT
                           !.wasm_stack_private_depth =
                               sm_fsm.diffs[d].wasm_stack_private_depth,
                           !.wasm_inst_offset = sm_fsm.diffs[d].wasm_inst_offset]
        IN  /\ d = 3 => /\ sm_state = abs(after2)
                        /\ Len(sm_state.stack_values) = Len(B.stack_values)
            /\ d = 2 => sm_state = abs([after2 EXCEPT
                                          !.stack_values = Append(B.stack_values, x)])
            /\ d = 1 => sm_state = abs([B EXCEPT
                                          !.stack_values = Append(B.stack_values, x)])

\* The state at D3 has been reconstructed and differs from the baseline in
\* register 1 and frame slot 4.
C8_Witness ==
    /\ sm_phase = "done"
    /\ sm_info.diff_id = U(2)
    /\ sm_fsm.diffs[3].last = Some(U(1))
    /\ sm_state.register_values[2] = Vmctx
    /\ DOMAIN sm_state.prev_frame = {U(5)}
    /\ sm_state.stack_values = Baseline.stack_values

\* C9: offset lookup uses half-open ranges: the entry matched has the
\* greatest key <= q and an end_offset > q; when the entry with the
\* greatest key <= q ends at or before q, or no key is <= q, the lookup
\* fails with OffsetNotCovered.  With end_offset = 100, q = 99 matches and
\* q = 100 does not.
C9_HalfOpenLookup ==
    sm_phase # "idle" =>
        LET index == sm_fsm[sm_query[1]]
            q == sm_query[2]
            le(a, b) == a = b \/ U64Less(a, b)
            greatest(k) == le(k, q) /\ \A j \in DOMAIN index : le(j, q) => le(j, k)
        IN  /\ sm_err # "OffsetNotCovered" =>
                \E k \in DOMAIN index :
                    /\ greatest(k) /\ sm_info = index[k]
                    /\ U64Less(q, index[k].end_offset)
            /\ sm_err = "OffsetNotCovered" =>
                \A k \in DOMAIN index : greatest(k) => le(index[k].end_offset, q)
            /\ (sm_query[1] = "call_offsets" /\ q = U(99)) =>
                sm_info = OffsetInfo(U(100), U(1), U(60))
            /\ (sm_query[1] \in {"call_offsets", "loop_offsets"} /\ q = U(100)) =>
                sm_err = "OffsetNotCovered"

\* A query at 100 into a range ending at 100 has failed.
C9_Witness ==
    /\ sm_phase = "failed"
    /\ sm_query = <<"loop_offsets", U(100)>>
    /\ sm_err = "OffsetNotCovered"

====
